---- MODULE Spec2Model ----
(***************************************************************************)
(* A model of the real-time portfolio synchronisation and valuation core   *)
(* of the finance-ai dashboard:                                            *)
(*   - SSEClient / SSEManager            (sse-client.js)                   *)
(*   - PortfolioPage tick merge, aggregate stats, visibility handling      *)
(*   - PositionCard valuation and target evaluation                        *)
(*   - PortfolioChart P&L fill regions, time ranges and fetches            *)
(*   - the create / close / edit / delete submits of app.js                *)
(* JavaScript values that may be undefined are modelled as tuples: <<>> is *)
(* undefined/null, <<n>> is the number n.                                  *)
(***************************************************************************)
EXTENDS Integers, Sequences, FiniteSets, TLC

VARIABLES
    clients,        \* every SSEClient constructed so far, in construction order
    connections,    \* SSEManager.connections: name -> index into clients, 0 when absent
    nTimers,        \* number of setTimeout handles handed out so far
    nSources,       \* number of EventSource objects constructed so far
    positions,      \* PortfolioPage.positions
    stats,          \* PortfolioPage.stats
    priceEventSource, \* PortfolioPage._priceEventSource, 0 when null
    pageSources,    \* the EventSource objects of the page that are not closed
    nPageSources,   \* number of EventSource objects the page constructed
    pageTimers,     \* pending 5 s reconnect timers of the page's onerror handler
    hidden,         \* document.hidden
    isConnected,    \* the page element is attached to the document
    nLoads,         \* number of _loadData() calls issued
    inFlight,       \* fetches awaiting their response, per endpoint
    loaded,         \* history: the position list as last assigned from /api/positions
    lastTick,       \* history: per ticker, the live data merged last since that load
    pageOp,         \* history: the page operation that ran last
    cardPosition,   \* PositionCard.position
    cardView,       \* what the card computed when it rendered last, <<>> before
    cardCurrency,   \* PositionCard.currency, the display currency
    cardViewBefore, \* history: what the card had rendered for the same position
                    \* before the display currency changed, and the currency then
    chartData,      \* PortfolioChart.pnlData
    chartFills,     \* the fill regions _drawPnlChart painted last, <<>> before
    minValue,       \* PortfolioChart.minValue
    maxValue,       \* PortfolioChart.maxValue
    chartPending,   \* the fetchData() calls awaiting their response: request id and
                    \* the timeRangeIndex the request was issued for
    timeRangeIndex, \* PortfolioChart.timeRangeIndex
    chartSeries,    \* the daily P&L series the server holds
    nFetches,       \* number of fetchData() calls issued
    chartShown,     \* history: the timeRangeIndex of the request whose response
                    \* was stored last, <<>> before
    isSubmitting,   \* app.js: the double-submit guard
    currentPosition, \* app.js: is currentPositionToClose / ToEdit / ToDelete set?
    request,        \* the CRUD request awaiting its response, <<>> when none
    nSent,          \* number of CRUD requests sent so far
    toast,          \* the kind of the toast shown last
    crudOp          \* history: what the CRUD handler that ran last did

sseVars == <<clients, connections, nTimers, nSources>>

pageVars == <<positions, stats, priceEventSource, pageSources, nPageSources,
              pageTimers, hidden, isConnected, nLoads, inFlight, loaded,
              lastTick, pageOp>>

cardVars == <<cardPosition, cardView, cardCurrency, cardViewBefore>>

chartVars == <<chartData, chartFills, minValue, maxValue, chartPending,
               timeRangeIndex, chartSeries, nFetches, chartShown>>

crudVars == <<isSubmitting, currentPosition, request, nSent, toast, crudOp>>

vars == <<clients, connections, nTimers, nSources,
          positions, stats, priceEventSource, pageSources, nPageSources,
          pageTimers, hidden, isConnected, nLoads, inFlight, loaded,
          lastTick, pageOp, cardPosition, cardView, cardCurrency, cardViewBefore,
          chartData, chartFills, minValue, maxValue, chartPending,
          timeRangeIndex, chartSeries, nFetches, chartShown,
          isSubmitting, currentPosition, request, nSent, toast, crudOp>>

----------------------------------------------------------------------------
(* JavaScript value helpers *)

undefined == <<>>

Num(n) == <<n>>

IsDef(v) == v # undefined

\* JavaScript truthiness of a number-or-undefined value
Truthy(v) == v # undefined /\ v[1] # 0

\* a || b
JsOr(a, b) == IF Truthy(a) THEN a ELSE b

Min(a, b) == IF a <= b THEN a ELSE b

Max(a, b) == IF a >= b THEN a ELSE b

----------------------------------------------------------------------------
(* Bounds of the model *)

MaxClients == 2

MaxTimers == 3

MaxSources == 4

MaxErrs == 4

MaxLoads == 2

MaxPageSources == 3

MaxPageTimers == 1

MaxSamples == 4

MaxSubmits == 2

MaxFrames == 2

MaxFetches == 2

----------------------------------------------------------------------------
(* SSEClient *)

DefaultReconnectDelay == 5000

CapDelay == 30000

Infinity == undefined

Names == {"prices", "news"}

\* the options objects callers pass to the constructor; the message callback
\* is absent or one that records the data it is called with
OptionsSet ==
    [reconnectDelay : {undefined, Num(12000)},
     maxRetries     : {undefined, Num(0), Num(2)},
     onMessage      : {undefined}]
    \cup {[reconnectDelay |-> undefined, maxRetries |-> undefined,
            onMessage |-> <<"record">>]}

\* event.data of the frames the server can send
Payloads == {"{\"n\":1}", "{\"n\":2}", "{\"n\":"}

\* JSON.parse(event.data): the value, <<>> when it throws a SyntaxError
JsonParse(text) ==
    CASE text = "{\"n\":1}" -> <<1>>
      [] text = "{\"n\":2}" -> <<2>>
      [] OTHER              -> undefined

\* constructor(url, options)
NewClient(options) ==
    [reconnectDelay |-> JsOr(options.reconnectDelay, Num(DefaultReconnectDelay))[1],
     maxRetries     |-> JsOr(options.maxRetries, Infinity),
     retries        |-> 0,
     eventSource    |-> 0,
     reconnectTimer |-> 0,
     isManualClose  |-> FALSE,
     onMessage      |-> options.onMessage,
     \* environment: the data the recording message callback was called with
     delivered      |-> <<>>,
     \* history: event.data of the frame the last call handled, <<>> when the
     \* last call was no message event; the length of delivered when a frame
     \* last failed to parse, 0 when none did; the 'max retries reached'
     \* notices raised since the retry counter was last reset
     lastFrame      |-> undefined,
     droppedAt      |-> 0,
     notices        |-> 0,
     \* environment: the timers of this client that are still pending and
     \* the EventSource objects of this client that are not closed
     timers         |-> {},
     sources        |-> {},
     \* history: transport errors since the last message or open event, the
     \* delay of the reconnect timer scheduled last, and the number that the
     \* error scheduling it had among the errors since the last message or open
     errs           |-> 0,
     lastDelay      |-> undefined,
     lastK          |-> 0,
     \* history: options.maxRetries as passed, the reconnect timers scheduled
     \* since the retry counter was last reset, whether the last call on the
     \* client was close() ("close"), close() directly after close()
     \* ("close2") or anything else, and whether that close() closed a
     \* transport
     configuredMaxRetries |-> options.maxRetries,
     scheduled      |-> 0,
     lastOp         |-> "other",
     closedTransport |-> FALSE]

\* this.retries < this.maxRetries
RetriesBelowMax(c) == c.maxRetries = Infinity \/ c.retries < c.maxRetries[1]

\* Math.min(this.reconnectDelay * this.retries, 30000)
BackoffDelay(reconnectDelay, retries) == Min(reconnectDelay * retries, CapDelay)

\* _createEventSource(): the client after the call, given the new object's id
CreateEventSource(c, id) ==
    [c EXCEPT !.sources     = (c.sources \ {c.eventSource}) \cup {id},
              !.eventSource = id]

\* mutant of CloseClient: this.eventSource is closed but not set to null
CloseClientKeepingEventSource(c) ==
    [c EXCEPT !.isManualClose  = TRUE,
              !.timers         = c.timers \ {c.reconnectTimer},
              !.reconnectTimer = 0,
              !.lastOp         = IF c.lastOp = "other" THEN "close" ELSE "close2",
              !.closedTransport = (c.eventSource # 0),
              !.lastFrame      = undefined]

\* close(): the client after the call
CloseClient(c) ==
    [c EXCEPT !.isManualClose  = TRUE,
              !.timers         = c.timers \ {c.reconnectTimer},
              !.reconnectTimer = 0,
              !.sources        = c.sources \ {c.eventSource},
              !.eventSource    = 0,
              !.lastOp         = IF c.lastOp = "other" THEN "close" ELSE "close2",
              !.closedTransport = (c.eventSource # 0),
              !.lastFrame      = undefined]

\* connect(): the client after the call
ConnectClient(c, id) ==
    CreateEventSource([c EXCEPT !.isManualClose = FALSE,
                                !.lastOp = "other", !.closedTransport = FALSE,
                                !.lastFrame = undefined], id)

\* eventSource.onerror: the client after the handler, given a fresh timer id
OnErrorClient(c, id) ==
    LET counted == [c EXCEPT !.errs = c.errs + 1,
                             !.lastOp = "other", !.closedTransport = FALSE,
                             !.lastFrame = undefined] IN
    IF c.isManualClose THEN counted
    ELSE IF RetriesBelowMax(c)
         THEN [counted EXCEPT
                 !.retries        = c.retries + 1,
                 !.reconnectTimer = id,
                 !.timers         = c.timers \cup {id},
                 !.scheduled      = c.scheduled + 1,
                 !.lastDelay      = Num(BackoffDelay(c.reconnectDelay, c.retries + 1)),
                 !.lastK          = c.errs + 1]
         ELSE [counted EXCEPT !.notices = c.notices + 1]

\* does the onerror handler reach setTimeout?
ErrorSchedules(c) == ~c.isManualClose /\ RetriesBelowMax(c)

ClientConnect(i) ==
    /\ i \in 1..Len(clients)
    /\ nSources < MaxSources
    /\ clients' = [clients EXCEPT ![i] = ConnectClient(clients[i], nSources + 1)]
    /\ nSources' = nSources + 1
    /\ UNCHANGED <<connections, nTimers, pageVars, cardVars, chartVars, crudVars>>

ClientClose(i) ==
    /\ i \in 1..Len(clients)
    /\ clients' = [clients EXCEPT ![i] = CloseClient(clients[i])]
    /\ UNCHANGED <<connections, nTimers, nSources, pageVars, cardVars, chartVars, crudVars>>

\* mutant of OnMessageClient: a frame that does not parse ends the session
OnMessageClientClosingOnParseError(c, text) ==
    LET reset == [c EXCEPT !.retries = 0, !.errs = 0, !.scheduled = 0,
                           !.notices = 0, !.lastOp = "other",
                           !.closedTransport = FALSE, !.lastFrame = <<text>>] IN
    IF IsDef(JsonParse(text))
    THEN (IF IsDef(c.onMessage)
          THEN [reset EXCEPT !.delivered = Append(c.delivered, JsonParse(text)[1])]
          ELSE reset)
    ELSE [reset EXCEPT !.droppedAt = Len(c.delivered),
                       !.sources = c.sources \ {c.eventSource},
                       !.eventSource = 0]

\* eventSource.onmessage: the client after the handler, given event.data
OnMessageClient(c, text) ==
    LET reset == [c EXCEPT !.retries = 0, !.errs = 0, !.scheduled = 0,
                           !.notices = 0, !.lastOp = "other",
                           !.closedTransport = FALSE, !.lastFrame = <<text>>] IN
    IF IsDef(JsonParse(text))
    THEN (IF IsDef(c.onMessage)
          THEN [reset EXCEPT !.delivered = Append(c.delivered, JsonParse(text)[1])]
          ELSE reset)
    ELSE [reset EXCEPT !.droppedAt = Len(c.delivered)]

\* a message event on an open EventSource of client i
OnMessage(i, text) ==
    /\ i \in 1..Len(clients)
    /\ clients[i].sources # {}
    /\ (IsDef(JsonParse(text)) /\ IsDef(clients[i].onMessage))
         => Len(clients[i].delivered) < MaxFrames
    /\ clients' = [clients EXCEPT ![i] = OnMessageClient(clients[i], text)]
    /\ UNCHANGED <<connections, nTimers, nSources, pageVars, cardVars, chartVars, crudVars>>

\* an error event on an open EventSource of client i
OnError(i) ==
    /\ i \in 1..Len(clients)
    /\ clients[i].sources # {}
    /\ clients[i].errs < MaxErrs
    /\ ErrorSchedules(clients[i]) => nTimers < MaxTimers
    /\ clients' = [clients EXCEPT ![i] = OnErrorClient(clients[i], nTimers + 1)]
    /\ nTimers' = IF ErrorSchedules(clients[i]) THEN nTimers + 1 ELSE nTimers
    /\ UNCHANGED <<connections, nSources, pageVars, cardVars, chartVars, crudVars>>

\* an open event on an open EventSource of client i
OnOpen(i) ==
    /\ i \in 1..Len(clients)
    /\ clients[i].sources # {}
    /\ clients' = [clients EXCEPT ![i].retries = 0, ![i].errs = 0,
                                  ![i].scheduled = 0, ![i].notices = 0,
                                  ![i].lastOp = "other",
                                  ![i].closedTransport = FALSE,
                                  ![i].lastFrame = undefined]
    /\ UNCHANGED <<connections, nTimers, nSources, pageVars, cardVars, chartVars, crudVars>>

\* a pending reconnect timer of client i fires
TimerFire(i) ==
    /\ i \in 1..Len(clients)
    /\ nSources < MaxSources
    /\ \E t \in clients[i].timers :
         clients' = [clients EXCEPT ![i] =
             CreateEventSource([clients[i] EXCEPT !.timers = clients[i].timers \ {t},
                                                  !.lastOp = "other",
                                                  !.closedTransport = FALSE,
                                                  !.lastFrame = undefined],
                               nSources + 1)]
    /\ nSources' = nSources + 1
    /\ UNCHANGED <<connections, nTimers, pageVars, cardVars, chartVars, crudVars>>

----------------------------------------------------------------------------
(* SSEManager *)

\* disconnect(name): <<clients, connections>> after the call
Disconnect(cl, conn, name) ==
    IF conn[name] # 0
    THEN <<[cl EXCEPT ![conn[name]] = CloseClient(cl[conn[name]])],
           [conn EXCEPT ![name] = 0]>>
    ELSE <<cl, conn>>

\* connect(name, url, options)
MgrConnect(name, options) ==
    /\ Len(clients) < MaxClients
    /\ nSources < MaxSources
    /\ LET d == Disconnect(clients, connections, name)
           client == ConnectClient(NewClient(options), nSources + 1)
       IN /\ clients' = Append(d[1], client)
          /\ connections' = [d[2] EXCEPT ![name] = Len(clients) + 1]
    /\ nSources' = nSources + 1
    /\ UNCHANGED <<nTimers, pageVars, cardVars, chartVars, crudVars>>

\* disconnect(name)
MgrDisconnect(name) ==
    /\ LET d == Disconnect(clients, connections, name)
       IN /\ clients' = d[1]
          /\ connections' = d[2]
    /\ UNCHANGED <<nTimers, nSources, pageVars, cardVars, chartVars, crudVars>>

\* disconnectAll()
MgrDisconnectAll ==
    /\ clients' = [i \in 1..Len(clients) |->
                     IF \E n \in Names : connections[n] = i
                     THEN CloseClient(clients[i]) ELSE clients[i]]
    /\ connections' = [n \in Names |-> 0]
    /\ UNCHANGED <<nTimers, nSources, pageVars, cardVars, chartVars, crudVars>>

----------------------------------------------------------------------------
(* PortfolioPage: data the server can send *)

Tickers == {"AAPL", "NESN.SW"}

\* a position as GET /api/positions returns it
ServerPosition(id, ticker, status, qty, pnl) ==
    [id |-> id, ticker |-> ticker, status |-> status,
     entry_price |-> Num(100), quantity |-> qty,
     current_price |-> undefined, live_data |-> undefined,
     pnl_value |-> pnl, pnl_percent |-> undefined, pnl_gross |-> undefined,
     current_value |-> undefined, invested |-> undefined]

PosA == ServerPosition(1, "AAPL", "open", Num(10), undefined)

PosN == ServerPosition(2, "NESN.SW", "open", undefined, undefined)

PosC == ServerPosition(3, "AAPL", "closed", Num(10), Num(50))

PositionLists == {<<>>, <<PosC>>, <<PosA, PosC>>, <<PosA, PosN, PosC>>}

\* the server-computed P&L block of a tick
PnlBlock(net, pct, gross, value, inv) ==
    <<[pnl_net |-> Num(net), pnl_percent |-> Num(pct), pnl_gross |-> Num(gross),
       current_value |-> Num(value), invested |-> Num(inv)]>>

\* the live data of one ticker in a frame
LiveDataSet ==
    {[price |-> Num(110), pnl |-> PnlBlock(95, 9, 100, 1100, 1000)],
     [price |-> Num(105), pnl |-> undefined],
     [price |-> Num(0),   pnl |-> PnlBlock(-1005, -100, -1000, 0, 1000)]}

\* result.prices: ticker -> live data, <<>> for a ticker the frame lacks
PricesSet == [Tickers -> {undefined} \cup {<<d>> : d \in LiveDataSet}]

\* a decoded frame of the price stream, or the body of POST /api/live/prices;
\* a frame reporting a failure carries no prices, or prices for one ticker
FrameSet ==
    {[success |-> TRUE, prices |-> p] :
        p \in {undefined} \cup {<<f>> : f \in PricesSet}}
    \cup {[success |-> FALSE, prices |-> p] :
        p \in {undefined} \cup {<<f>> : f \in {g \in PricesSet : ~IsDef(g["NESN.SW"])}}}

\* data.latest_snapshot of GET /api/portfolio/performance
SnapshotSet ==
    {[total_value |-> 2000, total_invested |-> 1900, open_positions_count |-> 2,
      total_pnl |-> 100, realized_pnl |-> 40, global_pnl |-> 140],
     [total_value |-> 0, total_invested |-> 0, open_positions_count |-> 0,
      total_pnl |-> 0, realized_pnl |-> 0, global_pnl |-> 0]}

----------------------------------------------------------------------------
(* PortfolioPage: operations *)

\* liveData.pnl?.<field>
PnlField(liveData, field) ==
    IF IsDef(liveData.pnl) THEN liveData.pnl[1][field] ELSE undefined

\* mutant of ApplyLiveData: a tick without a P&L block keeps the P&L fields of
\* the tick before it
ApplyLiveDataKeepingPnl(p, liveData) ==
    [p EXCEPT !.current_price = liveData.price,
              !.live_data     = <<liveData>>,
              !.pnl_value     = IF IsDef(liveData.pnl) THEN liveData.pnl[1].pnl_net ELSE @,
              !.pnl_percent   = IF IsDef(liveData.pnl) THEN liveData.pnl[1].pnl_percent ELSE @,
              !.pnl_gross     = IF IsDef(liveData.pnl) THEN liveData.pnl[1].pnl_gross ELSE @,
              !.current_value = IF IsDef(liveData.pnl) THEN liveData.pnl[1].current_value ELSE @,
              !.invested      = IF IsDef(liveData.pnl) THEN liveData.pnl[1].invested ELSE @]

\* { ...p, current_price: liveData.price, live_data: liveData, ... }
ApplyLiveData(p, liveData) ==
    [p EXCEPT !.current_price = liveData.price,
              !.live_data     = <<liveData>>,
              !.pnl_value     = PnlField(liveData, "pnl_net"),
              !.pnl_percent   = PnlField(liveData, "pnl_percent"),
              !.pnl_gross     = PnlField(liveData, "pnl_gross"),
              !.current_value = PnlField(liveData, "current_value"),
              !.invested      = PnlField(liveData, "invested")]

\* this.positions.map(p => p.status === 'open' && result.prices[p.ticker] ? ... : p)
ApplyPrices(pos, prices) ==
    [k \in 1..Len(pos) |->
        IF pos[k].status = "open" /\ IsDef(prices[pos[k].ticker])
        THEN ApplyLiveData(pos[k], prices[pos[k].ticker][1])
        ELSE pos[k]]

\* result.success && result.prices
FrameAccepted(frame) == frame.success /\ IsDef(frame.prices)

IsOpen(p) == p.status = "open"

\* the three amounts _updateStatsFromPositions takes from one open position
StatInvested(p) == JsOr(p.invested, Num(p.entry_price[1] * JsOr(p.quantity, Num(1))[1]))[1]

StatValue(p) == JsOr(p.current_value, Num(StatInvested(p)))[1]

StatPnl(p) == JsOr(p.pnl_value, Num(0))[1]

RECURSIVE SumOpen(_, _, _)
\* the forEach fold over the open positions: Amount is 1, 2 or 3
SumOpen(pos, k, which) ==
    IF k > Len(pos) THEN 0
    ELSE (IF IsOpen(pos[k])
          THEN (CASE which = 1 -> StatInvested(pos[k])
                  [] which = 2 -> StatValue(pos[k])
                  [] OTHER     -> StatPnl(pos[k]))
          ELSE 0) + SumOpen(pos, k + 1, which)

\* _updateStatsFromPositions(): the new this.stats
UpdateStatsFromPositions(pos, st) ==
    [st EXCEPT !.value         = SumOpen(pos, 1, 2),
               !.invested      = SumOpen(pos, 1, 1),
               !.openPositions = Len(SelectSeq(pos, IsOpen)),
               !.pnlOpen       = SumOpen(pos, 1, 3),
               !.pnlGlobal     = SumOpen(pos, 1, 3) + st.pnlRealized]

\* history: the live data merged last, per ticker
NoTicks == [t \in Tickers |-> undefined]

RecordTicks(ticks, prices) ==
    [t \in Tickers |-> IF IsDef(prices[t]) THEN prices[t] ELSE ticks[t]]

\* the merge both the stream's onmessage and _fetchLivePrices perform
MergeFrame(frame) ==
    IF FrameAccepted(frame)
    THEN /\ positions' = ApplyPrices(positions, frame.prices[1])
         /\ stats' = UpdateStatsFromPositions(positions', stats)
         /\ lastTick' = RecordTicks(lastTick, frame.prices[1])
         /\ pageOp' = "merge"
    ELSE /\ UNCHANGED <<positions, stats, lastTick>>
         /\ pageOp' = "dropped"

\* _disconnectPriceStream(): <<_priceEventSource, open sources>> after the call
DisconnectPriceStream(es, open) ==
    IF es # 0 THEN <<0, open \ {es}>> ELSE <<es, open>>

\* mutant of ConnectPriceStream: the existing stream is not disconnected first
ConnectPriceStreamKeepingOld(es, open, id) == <<id, open \cup {id}>>

\* _connectPriceStream(): the same pair after the call, given the new object's id
ConnectPriceStream(es, open, id) ==
    <<id, DisconnectPriceStream(es, open)[2] \cup {id}>>

\* _loadData(): the three fetches are issued before the call returns
IssueLoad ==
    /\ nLoads' = nLoads + 1
    /\ inFlight' = [inFlight EXCEPT !.positions = @ + 1, !.stats = @ + 1]

\* mutant of HandleVisibilityChange: the stream is reopened without a refresh
HandleVisibilityChangeNoRefresh ==
    IF hidden'
    THEN /\ priceEventSource' = DisconnectPriceStream(priceEventSource, pageSources)[1]
         /\ pageSources' = DisconnectPriceStream(priceEventSource, pageSources)[2]
         /\ UNCHANGED <<nPageSources, nLoads, inFlight>>
         /\ pageOp' = "hide"
    ELSE /\ nPageSources < MaxPageSources
         /\ UNCHANGED <<nLoads, inFlight>>
         /\ priceEventSource' =
              ConnectPriceStream(priceEventSource, pageSources, nPageSources + 1)[1]
         /\ pageSources' =
              ConnectPriceStream(priceEventSource, pageSources, nPageSources + 1)[2]
         /\ nPageSources' = nPageSources + 1
         /\ pageOp' = "show"

\* _handleVisibilityChange on a visibilitychange event
HandleVisibilityChange ==
    IF hidden'
    THEN /\ priceEventSource' = DisconnectPriceStream(priceEventSource, pageSources)[1]
         /\ pageSources' = DisconnectPriceStream(priceEventSource, pageSources)[2]
         /\ UNCHANGED <<nPageSources, nLoads, inFlight>>
         /\ pageOp' = "hide"
    ELSE /\ nLoads < MaxLoads
         /\ nPageSources < MaxPageSources
         /\ IssueLoad
         /\ priceEventSource' =
              ConnectPriceStream(priceEventSource, pageSources, nPageSources + 1)[1]
         /\ pageSources' =
              ConnectPriceStream(priceEventSource, pageSources, nPageSources + 1)[2]
         /\ nPageSources' = nPageSources + 1
         /\ pageOp' = "show"

\* the document changes visibility; the page listens while it is attached
VisibilityChange ==
    /\ hidden' = ~hidden
    /\ IF isConnected
       THEN HandleVisibilityChange
       ELSE /\ UNCHANGED <<priceEventSource, pageSources, nPageSources, nLoads, inFlight>>
            /\ pageOp' = "none"
    /\ UNCHANGED <<positions, stats, pageTimers, isConnected, loaded, lastTick, sseVars, cardVars, chartVars, crudVars>>

ConnectedCallback ==
    /\ ~isConnected
    /\ nLoads < MaxLoads
    /\ nPageSources < MaxPageSources
    /\ isConnected' = TRUE
    /\ IssueLoad
    /\ priceEventSource' =
         ConnectPriceStream(priceEventSource, pageSources, nPageSources + 1)[1]
    /\ pageSources' =
         ConnectPriceStream(priceEventSource, pageSources, nPageSources + 1)[2]
    /\ nPageSources' = nPageSources + 1
    /\ pageOp' = "mount"
    /\ UNCHANGED <<positions, stats, pageTimers, hidden, loaded, lastTick, sseVars, cardVars, chartVars, crudVars>>

DisconnectedCallback ==
    /\ isConnected
    /\ isConnected' = FALSE
    /\ priceEventSource' = DisconnectPriceStream(priceEventSource, pageSources)[1]
    /\ pageSources' = DisconnectPriceStream(priceEventSource, pageSources)[2]
    /\ pageOp' = "unmount"
    /\ UNCHANGED <<positions, stats, nPageSources, pageTimers, hidden, nLoads,
                   inFlight, loaded, lastTick, sseVars, cardVars, chartVars, crudVars>>

\* _handleRefresh(), and app.js calling _loadData() after a mutation
Refresh ==
    /\ nLoads < MaxLoads
    /\ IssueLoad
    /\ pageOp' = "refresh"
    /\ UNCHANGED <<positions, stats, priceEventSource, pageSources, nPageSources,
                   pageTimers, hidden, isConnected, loaded, lastTick, sseVars, cardVars, chartVars, crudVars>>

\* _priceEventSource.onmessage with a frame that parsed
PriceFrame(frame) ==
    /\ pageSources # {}
    /\ MergeFrame(frame)
    /\ UNCHANGED <<priceEventSource, pageSources, nPageSources, pageTimers, hidden,
                   isConnected, nLoads, inFlight, loaded, sseVars, cardVars, chartVars, crudVars>>

\* _priceEventSource.onerror
PriceStreamError ==
    /\ pageSources # {}
    /\ pageTimers < MaxPageTimers
    /\ pageTimers' = pageTimers + 1
    /\ pageOp' = "error"
    /\ UNCHANGED <<positions, stats, priceEventSource, pageSources, nPageSources,
                   hidden, isConnected, nLoads, inFlight, loaded, lastTick, sseVars, cardVars, chartVars, crudVars>>

\* the 5 s timer of onerror fires
PageTimerFire ==
    /\ pageTimers > 0
    /\ pageTimers' = pageTimers - 1
    /\ IF isConnected
       THEN /\ nPageSources < MaxPageSources
            /\ priceEventSource' =
                 ConnectPriceStream(priceEventSource, pageSources, nPageSources + 1)[1]
            /\ pageSources' =
                 ConnectPriceStream(priceEventSource, pageSources, nPageSources + 1)[2]
            /\ nPageSources' = nPageSources + 1
       ELSE UNCHANGED <<priceEventSource, pageSources, nPageSources>>
    /\ pageOp' = "timer"
    /\ UNCHANGED <<positions, stats, hidden, isConnected, nLoads, inFlight, loaded,
                   lastTick, sseVars, cardVars, chartVars, crudVars>>

\* _loadPositions() resumes with the response of GET /api/positions
PositionsResponse(ok, list) ==
    /\ inFlight.positions > 0
    /\ positions' = IF ok THEN list ELSE <<>>
    /\ loaded' = positions'
    /\ lastTick' = NoTicks
    \* _fetchLivePrices() posts only when there is an open position
    /\ inFlight' = [inFlight EXCEPT
                      !.positions = @ - 1,
                      !.live = IF ok /\ SelectSeq(list, IsOpen) # <<>> THEN @ + 1 ELSE @]
    /\ pageOp' = IF ok THEN "positions" ELSE "positionsFailed"
    /\ UNCHANGED <<stats, priceEventSource, pageSources, nPageSources, pageTimers,
                   hidden, isConnected, nLoads, sseVars, cardVars, chartVars, crudVars>>

\* _fetchLivePrices() resumes with the response of POST /api/live/prices
LivePricesResponse(ok, frame) ==
    /\ inFlight.live > 0
    /\ inFlight' = [inFlight EXCEPT !.live = @ - 1]
    /\ IF ok THEN MergeFrame(frame)
       ELSE /\ UNCHANGED <<positions, stats, lastTick>>
            /\ pageOp' = "dropped"
    /\ UNCHANGED <<priceEventSource, pageSources, nPageSources, pageTimers, hidden,
                   isConnected, nLoads, loaded, sseVars, cardVars, chartVars, crudVars>>

\* _loadStats() resumes with the response of GET /api/portfolio/performance
StatsResponse(ok, snapshot) ==
    /\ inFlight.stats > 0
    /\ inFlight' = [inFlight EXCEPT !.stats = @ - 1]
    /\ stats' = IF ok
                THEN [value         |-> snapshot.total_value,
                      invested      |-> snapshot.total_invested,
                      openPositions |-> snapshot.open_positions_count,
                      pnlOpen       |-> snapshot.total_pnl,
                      pnlRealized   |-> snapshot.realized_pnl,
                      pnlGlobal     |-> snapshot.global_pnl]
                ELSE stats
    /\ pageOp' = "stats"
    /\ UNCHANGED <<positions, priceEventSource, pageSources, nPageSources, pageTimers,
                   hidden, isConnected, nLoads, loaded, lastTick, sseVars, cardVars, chartVars, crudVars>>

----------------------------------------------------------------------------
(* PositionCard: numbers are fixed-point, in hundredths; a quotient is      *)
(* rounded down to the hundredth                                           *)

Scale == 10 ^ 2

\* the number n of the source, n a whole number
Fix(n) == Num(n * Scale)

\* a * b and a / b * 100 on fixed-point numbers
Mul(a, b) == (a * b) \div Scale

Percent(a, b) == (a * 100 * Scale) \div b

\* a + b where either may be undefined: undefined + x is NaN, which is falsy too
Plus(a, b) == IF IsDef(a) /\ IsDef(b) THEN Num(a[1] + b[1]) ELSE undefined

CardTickers == {"AAPL", "NESN.SW", "MC.PA", "VOD.L"}

\* the suffix ticker.endsWith() finds
TickerSuffix(ticker) ==
    CASE ticker = "NESN.SW" -> ".SW"
      [] ticker = "MC.PA"   -> ".PA"
      [] ticker = "VOD.L"   -> ".L"
      [] OTHER              -> ""

\* mutant of MarketCurrency: every ticker trades in USD
MarketCurrencyIgnoringSuffix(ticker) == "USD"

\* mutant of MarketCurrency: the display currency is taken
MarketCurrencyFromDisplay(ticker) == cardCurrency

\* get marketCurrency()
MarketCurrency(ticker) ==
    IF TickerSuffix(ticker) \in {".SW", ".VX"} THEN "CHF"
    ELSE IF TickerSuffix(ticker) \in {".PA", ".DE", ".AS"} THEN "EUR"
    ELSE IF TickerSuffix(ticker) = ".L" THEN "GBP"
    ELSE "USD"

\* static CHF_RATES, in hundredths
CHF_RATES(currency) ==
    CASE currency = "USD" -> 113
      [] currency = "EUR" -> 105
      [] currency = "GBP" -> 89
      [] currency = "CHF" -> 100

\* the positions GET /api/positions can return to the card's page
CardBasePositions ==
    {[id |-> 1, ticker |-> t, status |-> st,
      entry_price |-> e, quantity |-> q,
      buy_commission |-> bc, sell_commission |-> Fix(0),
      exit_price |-> x, current_price |-> cp,
      pnl_value |-> pv, pnl_percent |-> (IF IsDef(pv) THEN Fix(5) ELSE undefined),
      pnl_gross |-> undefined, current_value |-> undefined, invested |-> undefined,
      stop_loss |-> sl, take_profit_1 |-> t1, take_profit_2 |-> t2,
      live_data |-> undefined] :
        t \in CardTickers, st \in {"open", "closed"},
        e \in {Fix(0), Fix(100)}, q \in {undefined, Fix(0), Fix(10)},
        bc \in {Fix(0), Fix(5)}, x \in {undefined, Fix(120)},
        cp \in {undefined, Fix(105)}, pv \in {undefined, Fix(50)},
        sl \in {undefined, Fix(90), Fix(120)}, t1 \in {undefined, Fix(110)},
        t2 \in {undefined, Fix(120)}}

\* the live data a frame can carry for the card's ticker
CardTicks ==
    {[price |-> Fix(110), pnl |-> undefined],
     [price |-> Fix(125), pnl |-> undefined],
     [price |-> Fix(85),  pnl |-> undefined],
     [price |-> Fix(0),   pnl |-> undefined],
     [price |-> Fix(110),
      pnl |-> <<[pnl_net |-> Fix(95), pnl_percent |-> Fix(7), pnl_gross |-> Fix(100),
                 current_value |-> Fix(1100), invested |-> Fix(1000),
                 commission_native |-> Fix(5)]>>],
     [price |-> Fix(110),
      pnl |-> <<[pnl_net |-> Fix(95), pnl_percent |-> Fix(7), pnl_gross |-> undefined,
                 current_value |-> Fix(1100), invested |-> Fix(1000),
                 commission_native |-> undefined]>>]}

\* get pnlData()
PnlData(p) ==
    LET hasLive      == IsDef(p.live_data)
        livePrice    == IF hasLive THEN p.live_data[1].price ELSE undefined
        livePnl      == IF hasLive THEN p.live_data[1].pnl ELSE undefined
        currentPrice == JsOr(livePrice, JsOr(p.current_price,
                             JsOr(p.exit_price, JsOr(p.entry_price, Num(0)))))[1]
        quantity     == JsOr(p.quantity, Fix(1))[1]
        entryPrice   == JsOr(p.entry_price, Num(0))[1]
        buyComm      == JsOr(p.buy_commission, Num(0))[1]
        sellComm     == JsOr(p.sell_commission, Num(0))[1]
        totalFeesChf == buyComm + sellComm
        totalFees    == IF IsDef(livePnl) /\ IsDef(livePnl[1].commission_native)
                        THEN livePnl[1].commission_native[1]
                        ELSE Mul(totalFeesChf, CHF_RATES(MarketCurrency(p.ticker)))
        exitPrice    == JsOr(p.exit_price, Num(currentPrice))[1]
        invested     == Mul(entryPrice, quantity)
        currentValue == Mul(exitPrice, quantity)
        localGross   == currentValue - invested
        localValue   == localGross - totalFees
        pnlValue     == IF IsDef(livePnl) THEN livePnl[1].pnl_net
                        ELSE IF IsDef(p.pnl_value) THEN p.pnl_value
                        ELSE Num(localValue)
        pnlPercent   == IF IsDef(livePnl) THEN livePnl[1].pnl_percent
                        ELSE IF IsDef(p.pnl_value) THEN JsOr(p.pnl_percent, Num(0))
                        ELSE IF invested > 0 THEN Num(Percent(localValue, invested))
                        ELSE Num(0)
        pnlGross     == IF IsDef(livePnl)
                        THEN JsOr(livePnl[1].pnl_gross, Plus(pnlValue, Num(totalFees)))
                        ELSE IF IsDef(p.pnl_value)
                        THEN JsOr(p.pnl_gross, Plus(pnlValue, Num(totalFees)))
                        ELSE Num(localGross)
    IN [value        |-> JsOr(pnlValue, Num(0))[1],
        percent      |-> JsOr(pnlPercent, Num(0))[1],
        gross        |-> JsOr(pnlGross, Num(0))[1],
        fees         |-> totalFees,
        isProfit     |-> JsOr(pnlValue, Num(0))[1] >= 0,
        currentPrice |-> currentPrice,
        invested     |-> Mul(entryPrice, quantity),
        currentValue |-> Mul(currentPrice, quantity)]

\* mutant of AlertType: take-profit 1 is tested before take-profit 2
AlertTypeTp1First(p) ==
    LET currentPrice == PnlData(p).currentPrice IN
    IF p.status # "open" \/ currentPrice = 0 THEN "none"
    ELSE IF Truthy(p.stop_loss) /\ currentPrice <= p.stop_loss[1] THEN "sl"
    ELSE IF Truthy(p.take_profit_1) /\ currentPrice >= p.take_profit_1[1] THEN "tp1"
    ELSE IF Truthy(p.take_profit_2) /\ currentPrice >= p.take_profit_2[1] THEN "tp2"
    ELSE "none"

\* get alertType(); "none" is null
AlertType(p) ==
    LET currentPrice == PnlData(p).currentPrice IN
    IF p.status # "open" \/ currentPrice = 0 THEN "none"
    ELSE IF Truthy(p.stop_loss) /\ currentPrice <= p.stop_loss[1] THEN "sl"
    ELSE IF Truthy(p.take_profit_2) /\ currentPrice >= p.take_profit_2[1] THEN "tp2"
    ELSE IF Truthy(p.take_profit_1) /\ currentPrice >= p.take_profit_1[1] THEN "tp1"
    ELSE "none"

\* markerPosition: entry = p.entry_price || currentPrice
MarkerEntry(p) == JsOr(p.entry_price, Num(PnlData(p).currentPrice))[1]

\* sl = p.stop_loss || entry * 0.95
MarkerSl(p) == JsOr(p.stop_loss, Num(Mul(MarkerEntry(p), 95)))[1]

\* tp1 = p.take_profit_1 || entry * 1.05
MarkerTp1(p) == JsOr(p.take_profit_1, Num(Mul(MarkerEntry(p), 105)))[1]

\* tp2 = p.take_profit_2 || tp1 * 1.05
MarkerTp2(p) == JsOr(p.take_profit_2, Num(Mul(MarkerTp1(p), 105)))[1]

\* mutant of MarkerPosition: the position is not clamped
MarkerPositionUnclamped(p) ==
    LET totalRange == MarkerTp2(p) - MarkerSl(p) IN
    IF totalRange <= 0 THEN 50 * Scale
    ELSE Percent(PnlData(p).currentPrice - MarkerSl(p), totalRange)

\* get markerPosition(), in hundredths of a percent
MarkerPosition(p) ==
    LET totalRange == MarkerTp2(p) - MarkerSl(p) IN
    IF totalRange <= 0 THEN 50 * Scale
    ELSE Max(2 * Scale,
             Min(98 * Scale, Percent(PnlData(p).currentPrice - MarkerSl(p), totalRange)))

\* entryPosition and tp1Position: tp2 = p.take_profit_2 || entry * 1.1
ReferenceTp2(p) == JsOr(p.take_profit_2, Num(Mul(MarkerEntry(p), 110)))[1]

\* get entryPosition(), in hundredths of a percent
EntryPosition(p) ==
    LET totalRange == ReferenceTp2(p) - MarkerSl(p) IN
    IF totalRange <= 0 THEN 50 * Scale
    ELSE Percent(MarkerEntry(p) - MarkerSl(p), totalRange)

\* get tp1Position(), in hundredths of a percent
Tp1Position(p) ==
    LET totalRange == ReferenceTp2(p) - MarkerSl(p) IN
    IF totalRange <= 0 THEN 75 * Scale
    ELSE Percent(MarkerTp1(p) - MarkerSl(p), totalRange)

\* the card renders: its getters are evaluated on the current position
CardRender ==
    /\ cardView = undefined
    /\ cardView' = <<[pnl    |-> PnlData(cardPosition),
                      alert  |-> AlertType(cardPosition),
                      marker |-> MarkerPosition(cardPosition),
                      entryPosition |-> EntryPosition(cardPosition),
                      tp1Position   |-> Tp1Position(cardPosition)]>>
    /\ UNCHANGED <<cardPosition, cardCurrency, cardViewBefore,
                   sseVars, pageVars, chartVars, crudVars>>

\* the page merges a tick into the open position and hands the card the result
CardTick(tick) ==
    /\ cardPosition.status = "open"
    /\ cardPosition' = ApplyLiveData(cardPosition, tick)
    /\ cardView' = undefined
    /\ cardViewBefore' = undefined
    /\ UNCHANGED <<cardCurrency, sseVars, pageVars, chartVars, crudVars>>

\* the currencies of the currency selector that the model uses
DisplayCurrencies == {"USD", "CHF"}

\* the reactive property currency of the card is set to another display
\* currency, and the card renders again
CardSetCurrency(currency) ==
    /\ currency # cardCurrency
    /\ cardCurrency' = currency
    /\ cardViewBefore' = IF cardView # undefined
                         THEN <<[currency |-> cardCurrency, view |-> cardView[1]]>>
                         ELSE cardViewBefore
    /\ cardView' = undefined
    /\ UNCHANGED <<cardPosition, sseVars, pageVars, chartVars, crudVars>>

----------------------------------------------------------------------------
(* PortfolioChart._drawPnlChart: the fill regions *)
(* An x coordinate is a fraction <<num, den>>, den > 0, counted in sample   *)
(* steps of chartWidth / (data.length - 1) from padding.left: sample i of   *)
(* the source (0-based) is drawn at <<i, 1>>.                               *)

ChartValues == {-5, -2, 0, 3, 6}

RECURSIVE SeqsUpTo(_)
\* every series of at most n samples
SeqsUpTo(n) ==
    IF n = 0 THEN {<<>>}
    ELSE LET shorter == SeqsUpTo(n - 1)
         IN shorter \cup {Append(d, v) : d \in {e \in shorter : Len(e) = n - 1},
                                         v \in ChartValues}

FracLess(a, b) == a[1] * b[2] < b[1] * a[2]

FracMin(a, b) == IF FracLess(b, a) THEN b ELSE a

FracMax(a, b) == IF FracLess(a, b) THEN b ELSE a

\* x of the sample at index i of the sequence (index i - 1 of the source)
PointX(i) == <<i - 1, 1>>

\* prev.x + (p.x - prev.x) * (prev.value / (prev.value - p.value))
PositiveIntersectX(i, prevValue, value) ==
    <<(i - 2) * (prevValue - value) + prevValue, prevValue - value>>

\* mutant of NegativeIntersectX: the sign of prev.value is not flipped
NegativeIntersectXUnflipped(i, prevValue, value) ==
    <<(i - 2) * (value - prevValue) + prevValue, value - prevValue>>

\* prev.x + (p.x - prev.x) * (-prev.value / (p.value - prev.value))
NegativeIntersectX(i, prevValue, value) ==
    <<(i - 2) * (value - prevValue) + (0 - prevValue), value - prevValue>>

\* mutant of InPositiveFill: a sample equal to 0 is left out
InPositiveFillStrict(value) == value > 0

\* p.value >= 0
InPositiveFill(value) == value >= 0

\* p.value < 0
InNegativeFill(value) == value < 0

RECURSIVE PositiveFills(_, _, _, _)
\* the samples whose points lineTo(p.x, p.y) put on the outline of a region
\* that moveTo started at x start and that ended before sample i
OutlineSamples(start, i) == (start[1] + 1)..(i - 1)

\* the first loop: the regions filled green, from sample i on; start is the x
\* of moveTo while a region is started, <<>> otherwise
PositiveFills(data, i, start, acc) ==
    IF i > Len(data)
    THEN IF IsDef(start)
         THEN Append(acc, [from |-> start[1], to |-> PointX(Len(data)),
                           samples |-> OutlineSamples(start[1], i)])
         ELSE acc
    ELSE IF InPositiveFill(data[i])
         THEN PositiveFills(data, i + 1,
                            IF IsDef(start) THEN start ELSE <<PointX(i)>>, acc)
         ELSE IF IsDef(start)
              THEN PositiveFills(data, i + 1, undefined,
                       Append(acc, [from |-> start[1],
                                    to |-> PositiveIntersectX(i, data[i - 1], data[i]),
                                    samples |-> OutlineSamples(start[1], i)]))
              ELSE PositiveFills(data, i + 1, undefined, acc)

RECURSIVE NegativeFills(_, _, _, _)
\* the second loop: the regions filled red
NegativeFills(data, i, start, acc) ==
    IF i > Len(data)
    THEN IF IsDef(start)
         THEN Append(acc, [from |-> start[1], to |-> PointX(Len(data)),
                           samples |-> OutlineSamples(start[1], i)])
         ELSE acc
    ELSE IF InNegativeFill(data[i])
         THEN NegativeFills(data, i + 1,
                            IF IsDef(start) THEN start ELSE <<PointX(i)>>, acc)
         ELSE IF IsDef(start)
              THEN NegativeFills(data, i + 1, undefined,
                       Append(acc, [from |-> start[1],
                                    to |-> NegativeIntersectX(i, data[i - 1], data[i]),
                                    samples |-> OutlineSamples(start[1], i)]))
              ELSE NegativeFills(data, i + 1, undefined, acc)

\* Math.min(...dataSet) and Math.max(...dataSet) of a non-empty series
MinOf(data) ==
    CHOOSE v \in {data[i] : i \in 1..Len(data)} :
        \A i \in 1..Len(data) : v <= data[i]

MaxOf(data) ==
    CHOOSE v \in {data[i] : i \in 1..Len(data)} :
        \A i \in 1..Len(data) : v >= data[i]

\* _drawPnlChart(ctx, width, height, padding, data): what it painted, with
\* the min and max of its scale; nothing for fewer than two samples
DrawPnlChart(data) ==
    IF Len(data) < 2
    THEN <<[positive |-> <<>>, negative |-> <<>>, scale |-> undefined]>>
    ELSE <<[positive |-> PositiveFills(data, 1, undefined, <<>>),
            negative |-> NegativeFills(data, 1, undefined, <<>>),
            scale    |-> <<[min |-> Min(MinOf(data), 0),
                            max |-> Max(MaxOf(data), 0)]>>]>>

\* _updateMinMax() in P&L mode: <<minValue, maxValue>> after the call
UpdateMinMax(data, min, max) ==
    IF Len(data) > 0 THEN <<MinOf(data), MaxOf(data)>> ELSE <<min, max>>

\* the days of TIME_RANGES, 0 for 'Tout'
TIME_RANGES == <<1, 7, 30, 90, 365, 0>>

\* this.timeRangeIndex = 2 in the constructor; indices count from 0
DefaultTimeRangeIndex == 2

\* TIME_RANGES[index].days
Days(index) == TIME_RANGES[index + 1]

\* the response to ?days=days: the lookback window of the server's series
Window(series, days) ==
    IF days = 0 \/ days >= Len(series) THEN series
    ELSE SubSeq(series, Len(series) - days + 1, Len(series))

\* fetchData() up to its await: the request for the current time range is sent
IssueFetch ==
    /\ nFetches < MaxFetches
    /\ nFetches' = nFetches + 1
    /\ chartPending' = chartPending \cup {[id |-> nFetches + 1, index |-> timeRangeIndex']}

\* _changeTimeRange(direction); it returns at once when the new index is
\* outside TIME_RANGES
ChangeTimeRange(direction) ==
    /\ timeRangeIndex + direction >= 0
    /\ timeRangeIndex + direction < Len(TIME_RANGES)
    /\ timeRangeIndex' = timeRangeIndex + direction
    /\ minValue' = UpdateMinMax(chartData, minValue, maxValue)[1]
    /\ maxValue' = UpdateMinMax(chartData, minValue, maxValue)[2]
    /\ IssueFetch
    /\ UNCHANGED <<chartData, chartFills, chartSeries, chartShown,
                   sseVars, pageVars, cardVars, crudVars>>

\* _refresh()
ChartRefresh ==
    /\ timeRangeIndex' = timeRangeIndex
    /\ IssueFetch
    /\ UNCHANGED <<chartData, chartFills, minValue, maxValue, chartSeries,
                   chartShown, sseVars, pageVars, cardVars, crudVars>>

\* fetchData() resumes with the response to request req, which carries
\* data: the series is stored, _updateMinMax() and _drawChart() run
FetchData(req) ==
    /\ req \in chartPending
    /\ LET data == Window(chartSeries, Days(req.index)) IN
         /\ chartData' = data
         /\ minValue' = UpdateMinMax(data, minValue, maxValue)[1]
         /\ maxValue' = UpdateMinMax(data, minValue, maxValue)[2]
         /\ chartFills' = DrawPnlChart(data)
    /\ chartPending' = chartPending \ {req}
    /\ chartShown' = <<req.index>>
    /\ UNCHANGED <<timeRangeIndex, chartSeries, nFetches,
                   sseVars, pageVars, cardVars, crudVars>>

----------------------------------------------------------------------------
(* app.js: the create / close / edit / delete submits *)

\* the modals that act on a selected position
Modals == {"close", "edit", "delete"}

\* the requests a submit sends: POST /api/positions, POST .../close,
\* POST .../partial-close, PUT /api/positions/id, DELETE /api/positions/id
Requests == {"create", "close", "partial-close", "edit", "delete"}

\* the modal a request was sent from, "new" for the new-position modal
ModalOf(req) == IF req \in {"close", "partial-close"} THEN "close"
                ELSE IF req = "create" THEN "new" ELSE req

\* what the API answers: result.success, a result without success, or the
\* request or the decoding of its body throws
Outcomes == {"success", "rejected", "failed"}

\* openClosePositionModal / openEditTargetsModal / openDeletePositionModal
OpenModal(m) ==
    /\ currentPosition' = [currentPosition EXCEPT ![m] = TRUE]
    /\ crudOp' = "open"
    /\ UNCHANGED <<isSubmitting, request, nSent, toast, sseVars, pageVars, cardVars, chartVars>>

\* the modal's close event
DismissModal(m) ==
    /\ currentPosition[m]
    /\ currentPosition' = [currentPosition EXCEPT ![m] = FALSE]
    /\ crudOp' = "dismiss"
    /\ UNCHANGED <<isSubmitting, request, nSent, toast, sseVars, pageVars, cardVars, chartVars>>

\* the submit is accepted: isSubmitting = true and the request is sent
SendRequest(req) ==
    /\ nSent < MaxSubmits
    /\ isSubmitting' = TRUE
    /\ request' = <<req>>
    /\ nSent' = nSent + 1
    /\ crudOp' = "accepted"
    /\ UNCHANGED toast

\* submitNewPosition(); hasTicker: the ticker field is filled in
SubmitNewPosition(hasTicker) ==
    /\ IF isSubmitting
       THEN /\ crudOp' = "ignored"
            /\ UNCHANGED <<isSubmitting, request, nSent, toast>>
       ELSE IF ~hasTicker
       THEN /\ toast' = "error"
            /\ crudOp' = "invalid"
            /\ UNCHANGED <<isSubmitting, request, nSent>>
       ELSE SendRequest("create")
    /\ UNCHANGED <<currentPosition, sseVars, pageVars, cardVars, chartVars>>

\* submitClosePosition(), submitEditTargets(), submitDeletePosition()
SubmitForPosition(req) ==
    /\ req \in Requests \ {"create"}
    /\ IF ~currentPosition[ModalOf(req)] \/ isSubmitting
       THEN /\ crudOp' = "ignored"
            /\ UNCHANGED <<isSubmitting, request, nSent, toast>>
       ELSE SendRequest(req)
    /\ UNCHANGED <<currentPosition, sseVars, pageVars, cardVars, chartVars>>

\* mutant of SubmitFailed: the guard is not released
SubmitFailedKeepingGuard(outcome) ==
    /\ toast' = "error"
    /\ request' = undefined
    /\ crudOp' = outcome
    /\ UNCHANGED <<isSubmitting, currentPosition, nSent, sseVars, pageVars, cardVars, chartVars>>

\* the else branch and the catch block, then finally
SubmitFailed(outcome) ==
    /\ toast' = "error"
    /\ isSubmitting' = FALSE
    /\ request' = undefined
    /\ crudOp' = outcome
    /\ UNCHANGED <<currentPosition, nSent, sseVars, pageVars, cardVars, chartVars>>

\* the success branch, then finally: toast, modal closed, selection
\* cleared, elements.portfolioPage._loadData()
SubmitSucceeded ==
    /\ nLoads < MaxLoads
    /\ toast' = "success"
    /\ isSubmitting' = FALSE
    /\ currentPosition' = [m \in Modals |->
                              currentPosition[m] /\ m # ModalOf(request[1])]
    /\ request' = undefined
    /\ crudOp' = "success"
    /\ IssueLoad
    /\ pageOp' = "refresh"
    /\ UNCHANGED <<nSent, positions, stats, priceEventSource, pageSources,
                   nPageSources, pageTimers, hidden, isConnected, loaded, lastTick,
                   sseVars, cardVars, chartVars>>

\* the submit handler resumes after await API.post / put / delete
SubmitResponse(outcome) ==
    /\ request # undefined
    /\ IF outcome = "success"
       THEN IF ModalOf(request[1]) = "new" \/ currentPosition[ModalOf(request[1])]
            THEN SubmitSucceeded
            \* the toast reads currentPositionTo<X>.ticker: null once the
            \* modal was dismissed, and the TypeError lands in the catch block
            ELSE SubmitFailed("threw")
       ELSE SubmitFailed(outcome)

----------------------------------------------------------------------------
(* Specifications *)

SSEIdle ==
    /\ clients = <<>>
    /\ connections = [n \in Names |-> 0]
    /\ nTimers = 0
    /\ nSources = 0

\* the PortfolioPage as constructed
PageIdle ==
    /\ positions = <<>>
    /\ stats = [value |-> 0, invested |-> 0, openPositions |-> 0,
                pnlOpen |-> 0, pnlRealized |-> 0, pnlGlobal |-> 0]
    /\ priceEventSource = 0
    /\ pageSources = {}
    /\ nPageSources = 0
    /\ pageTimers = 0
    /\ hidden = FALSE
    /\ isConnected = FALSE
    /\ nLoads = 0
    /\ inFlight = [positions |-> 0, live |-> 0, stats |-> 0]
    /\ loaded = <<>>
    /\ lastTick = NoTicks
    /\ pageOp = "none"

\* a card without a rendered position, a chart without data
CardIdle ==
    /\ cardPosition = [status |-> "none"]
    /\ cardView = undefined
    /\ cardCurrency = "USD"
    /\ cardViewBefore = undefined

ChartIdle ==
    /\ chartData = <<>>
    /\ chartFills = undefined
    /\ minValue = 0
    /\ maxValue = 0
    /\ chartPending = {}
    /\ timeRangeIndex = DefaultTimeRangeIndex
    /\ chartSeries = <<>>
    /\ nFetches = 0
    /\ chartShown = undefined

\* app.js as loaded
CrudIdle ==
    /\ isSubmitting = FALSE
    /\ currentPosition = [m \in Modals |-> FALSE]
    /\ request = undefined
    /\ nSent = 0
    /\ toast = "none"
    /\ crudOp = "none"

\* one SSEClient used directly, as app.js uses it for the analyses stream
InitClient ==
    /\ PageIdle /\ CardIdle /\ ChartIdle /\ CrudIdle
    /\ \E o \in OptionsSet : clients = <<NewClient(o)>>
    /\ connections = [n \in Names |-> 0]
    /\ nTimers = 0
    /\ nSources = 0

NextClient ==
    \/ ClientConnect(1)
    \/ ClientClose(1)
    \/ \E text \in Payloads : OnMessage(1, text)
    \/ OnError(1)
    \/ OnOpen(1)
    \/ TimerFire(1)

SpecClient == InitClient /\ [][NextClient]_vars

\* the options the registry's callers pass: maxRetries or nothing
ManagerOptions ==
    {o \in OptionsSet : ~IsDef(o.onMessage) /\ ~IsDef(o.reconnectDelay)}

\* the SSEManager registry with the transport events of its clients
InitManager == SSEIdle /\ PageIdle /\ CardIdle /\ ChartIdle /\ CrudIdle

NextManager ==
    \/ \E n \in Names, o \in ManagerOptions : MgrConnect(n, o)
    \/ \E n \in Names : MgrDisconnect(n)
    \/ MgrDisconnectAll
    \/ \E i \in 1..Len(clients) :
         \/ \E text \in Payloads : OnMessage(i, text)
         \/ OnError(i)
         \/ OnOpen(i)
         \/ TimerFire(i)

SpecManager == InitManager /\ [][NextManager]_vars

InitPage == SSEIdle /\ PageIdle /\ CardIdle /\ ChartIdle /\ CrudIdle

\* the frames and position lists the lifecycle specification draws from
LifecycleFrames ==
    {f \in FrameSet :
        /\ f.success
        /\ IsDef(f.prices)
        /\ IsDef(f.prices[1]["AAPL"]) /\ IsDef(f.prices[1]["AAPL"][1].pnl)
        /\ ~IsDef(f.prices[1]["NESN.SW"])}

LifecycleLists == {<<>>, <<PosA, PosC>>}

\* the whole page: lifecycle, price stream, reconnect timers and refreshes
NextPage ==
    \/ ConnectedCallback
    \/ DisconnectedCallback
    \/ VisibilityChange
    \/ Refresh
    \/ \E f \in LifecycleFrames : PriceFrame(f)
    \/ PriceStreamError
    \/ PageTimerFire
    \/ \E ok \in BOOLEAN, l \in LifecycleLists : PositionsResponse(ok, l)
    \/ \E ok \in BOOLEAN, f \in LifecycleFrames : LivePricesResponse(ok, f)
    \/ \E ok \in BOOLEAN, sn \in SnapshotSet : StatsResponse(ok, sn)

SpecPage == InitPage /\ [][NextPage]_vars

\* the attached, visible page: every frame and every response the server can send
NextTicks ==
    \/ ConnectedCallback
    \/ Refresh
    \/ \E f \in FrameSet : PriceFrame(f)
    \/ \E ok \in BOOLEAN, l \in PositionLists : PositionsResponse(ok, l)
    \/ \E ok \in BOOLEAN, f \in FrameSet : LivePricesResponse(ok, f)
    \/ \E ok \in BOOLEAN, sn \in SnapshotSet : StatsResponse(ok, sn)

SpecTicks == InitPage /\ [][NextTicks]_vars

\* one PositionCard: the page hands it a position, ticks are merged, it renders
InitCard ==
    /\ SSEIdle /\ PageIdle /\ ChartIdle /\ CrudIdle
    /\ cardPosition \in CardBasePositions
    /\ cardView = undefined
    /\ cardCurrency = "USD"
    /\ cardViewBefore = undefined

NextCard ==
    \/ CardRender
    \/ \E tick \in CardTicks : CardTick(tick)
    \/ \E currency \in DisplayCurrencies : CardSetCurrency(currency)

SpecCard == InitCard /\ [][NextCard]_vars

\* one PortfolioChart in P&L mode after firstUpdated(): as constructed, the
\* first fetchData() awaiting its response; the server holds any series
InitChart ==
    /\ SSEIdle /\ PageIdle /\ CardIdle /\ CrudIdle
    /\ chartData = <<>>
    /\ chartFills = undefined
    /\ minValue = 0
    /\ maxValue = 0
    /\ timeRangeIndex = DefaultTimeRangeIndex
    /\ chartSeries \in SeqsUpTo(MaxSamples)
    /\ chartPending = {[id |-> 1, index |-> DefaultTimeRangeIndex]}
    /\ nFetches = 1
    /\ chartShown = undefined

NextChart ==
    \/ \E direction \in {-1, 1} : ChangeTimeRange(direction)
    \/ ChartRefresh
    \/ \E req \in chartPending : FetchData(req)

SpecChart == InitChart /\ [][NextChart]_vars

\* the CRUD submits of app.js against the API
InitCrud == SSEIdle /\ PageIdle /\ CardIdle /\ ChartIdle /\ CrudIdle

NextCrud ==
    \/ \E m \in Modals : OpenModal(m)
    \/ \E m \in Modals : DismissModal(m)
    \/ \E hasTicker \in BOOLEAN : SubmitNewPosition(hasTicker)
    \/ \E req \in Requests \ {"create"} : SubmitForPosition(req)
    \/ \E outcome \in Outcomes : SubmitResponse(outcome)

SpecCrud == InitCrud /\ [][NextCrud]_vars

----------------------------------------------------------------------------
(* Claims about SSEClient and SSEManager *)

\* the client holds no transport and no pending reconnect timer
ClientIsClosed(c) ==
    /\ c.isManualClose
    /\ c.eventSource = 0
    /\ c.sources = {}
    /\ c.timers = {}

\* C1: once close() has been called and until connect() is called again
\* (exactly the states with isManualClose set), the client has no
\* EventSource and no reconnect timer is pending.
C1_NoReconnectAfterClose ==
    \A i \in 1..Len(clients) :
        clients[i].isManualClose => ClientIsClosed(clients[i])

\* C2: the delay of the reconnect timer scheduled on the k-th consecutive
\* transport error since the last message or open event is
\* min(reconnectDelay * k, 30000).
C2_DelayOfKthError ==
    \A i \in 1..Len(clients) :
        IsDef(clients[i].lastDelay) =>
            clients[i].lastDelay[1] =
                Min(clients[i].reconnectDelay * clients[i].lastK, CapDelay)

\* C9: every client that was registered and is no longer stored under a name
\* of the registry has been closed: manually closed, no EventSource, no
\* pending reconnect timer.
C9_UnregisteredClientsClosed ==
    \A i \in 1..Len(clients) :
        (\A n \in Names : connections[n] # i) => ClientIsClosed(clients[i])

\* C11: for every configured maxRetries N >= 0, at most N reconnect timers
\* are scheduled between two resets of the retry counter (none when N = 0).
C11_AtMostMaxRetriesTimers ==
    \A i \in 1..Len(clients) :
        IsDef(clients[i].configuredMaxRetries) =>
            clients[i].scheduled <= clients[i].configuredMaxRetries[1]

\* the fields of the client and its environment that close() can touch
CloseFields(c) ==
    <<c.eventSource, c.reconnectTimer, c.isManualClose, c.retries, c.sources, c.timers>>

\* C12: close() called directly after close() leaves eventSource null,
\* reconnectTimer null, isManualClose true, retries and the pending timers
\* as they were, and closes no transport.
C12_CloseIdempotent ==
    [][\A i \in 1..Len(clients) :
         (/\ i <= Len(clients')
          /\ clients[i].lastOp = "close"
          /\ clients'[i].lastOp = "close2")
         => /\ CloseFields(clients'[i]) = CloseFields(clients[i])
            /\ clients'[i].eventSource = 0
            /\ clients'[i].reconnectTimer = 0
            /\ clients'[i].isManualClose
            /\ ~clients'[i].closedTransport]_vars

\* C12 witness: close() has been called directly after a close() that closed
\* a transport and cancelled a timer, while an earlier timer is still pending
C12_Witness ==
    /\ Len(clients) = 1
    /\ clients[1].lastOp = "close2"
    /\ clients[1].retries >= 2
    /\ clients[1].timers # {}

\* the last call on client c, in state after, handled a frame that does not parse
MalformedFrameStep(before, after) ==
    /\ after # before
    /\ IsDef(after.lastFrame)
    /\ ~IsDef(JsonParse(after.lastFrame[1]))

\* C21: a frame whose payload is not valid JSON leaves the retry counter, the
\* pending reconnect timer, the transport and the manual-close flag as they
\* were.
C21_MalformedFrameKeepsHealth ==
    [][\A i \in 1..Len(clients) :
         (i <= Len(clients') /\ MalformedFrameStep(clients[i], clients'[i]))
         => /\ clients'[i].retries = clients[i].retries
            /\ clients'[i].reconnectTimer = clients[i].reconnectTimer
            /\ clients'[i].timers = clients[i].timers
            /\ clients'[i].eventSource = clients[i].eventSource
            /\ clients'[i].sources = clients[i].sources
            /\ clients'[i].isManualClose = clients[i].isManualClose]_vars

\* C22: a frame that does not parse is not handed to the message callback,
\* closes no EventSource and schedules no reconnect; a frame that parses is
\* handed to the message callback after all the frames delivered before it.
C22_MalformedFrameDropped ==
    [][\A i \in 1..Len(clients) :
         (/\ i <= Len(clients')
          /\ clients'[i] # clients[i]
          /\ IsDef(clients'[i].lastFrame))
         => IF IsDef(JsonParse(clients'[i].lastFrame[1]))
            THEN IsDef(clients[i].onMessage) =>
                   clients'[i].delivered =
                     Append(clients[i].delivered,
                            JsonParse(clients'[i].lastFrame[1])[1])
            ELSE /\ clients'[i].delivered = clients[i].delivered
                 /\ clients'[i].eventSource = clients[i].eventSource
                 /\ clients'[i].sources = clients[i].sources
                 /\ clients'[i].reconnectTimer = clients[i].reconnectTimer
                 /\ clients'[i].timers = clients[i].timers]_vars

\* C22 witness: frame 2 was delivered, then a frame that does not parse
\* arrived, then frame 1 was delivered, on a transport that is still open
C22_Witness ==
    /\ Len(clients) = 1
    /\ clients[1].delivered = <<2, 1>>
    /\ clients[1].droppedAt = 1
    /\ clients[1].lastFrame = <<"{\"n\":1}">>
    /\ clients[1].eventSource # 0
    /\ clients[1].eventSource \in clients[1].sources

\* C23: between two resets of the retry counter the 'max retries reached'
\* notice is raised at most once, and once it has been raised no reconnect
\* timer is scheduled by a further transport error.
C23_SingleTerminalNotice ==
    [][\A i \in 1..Len(clients) :
         i <= Len(clients') =>
            /\ clients'[i].notices <= 1
            /\ (clients[i].notices >= 1 /\ clients'[i].errs = clients[i].errs + 1)
                 => clients'[i].timers = clients[i].timers]_vars

----------------------------------------------------------------------------
(* Claims about PortfolioPage *)

\* the field a position takes from the P&L block of a tick
TickPnl(tick, field) == IF tick.pnl = undefined THEN undefined ELSE tick.pnl[1][field]

\* position p holds, in all seven live fields, tick; the rest is as loaded
HoldsTick(p, base, tick) ==
    /\ p.current_price = tick.price
    /\ p.live_data = <<tick>>
    /\ p.pnl_value = TickPnl(tick, "pnl_net")
    /\ p.pnl_percent = TickPnl(tick, "pnl_percent")
    /\ p.pnl_gross = TickPnl(tick, "pnl_gross")
    /\ p.current_value = TickPnl(tick, "current_value")
    /\ p.invested = TickPnl(tick, "invested")
    /\ p.id = base.id /\ p.ticker = base.ticker /\ p.status = base.status
    /\ p.entry_price = base.entry_price /\ p.quantity = base.quantity

\* C3: after any sequence of frames every open position holds all seven live
\* fields from the frame that arrived last among those containing its ticker;
\* positions that are not open, and positions whose ticker was in no frame,
\* are as they were loaded.
C3_LastWriteWins ==
    /\ Len(positions) = Len(loaded)
    /\ \A k \in 1..Len(positions) :
         IF loaded[k].status = "open" /\ IsDef(lastTick[loaded[k].ticker])
         THEN HoldsTick(positions[k], loaded[k], lastTick[loaded[k].ticker][1])
         ELSE positions[k] = loaded[k]

\* C3 witness: after a merge, one open position holds a tick without P&L
\* block, another open position's ticker was in no frame, and a closed
\* position has the ticker of a merged frame.
C3_Witness ==
    /\ pageOp = "merge"
    /\ \E k \in 1..Len(positions) :
         /\ positions[k].status = "open"
         /\ IsDef(positions[k].live_data)
         /\ positions[k].live_data[1].pnl = undefined
    /\ \E k \in 1..Len(positions) :
         positions[k].status = "open" /\ ~IsDef(lastTick[positions[k].ticker])
    /\ \E k \in 1..Len(positions) :
         positions[k].status # "open" /\ IsDef(lastTick[positions[k].ticker])

RECURSIVE SumField(_, _, _)
\* the sum of a field over the open positions
SumField(pos, k, field) ==
    IF k > Len(pos) THEN 0
    ELSE (IF pos[k].status = "open" THEN pos[k][field][1] ELSE 0)
         + SumField(pos, k + 1, field)

\* C4: right after a tick merge, stats.openPositions is the number of open
\* positions, stats.invested, stats.value and stats.pnlOpen are the sums of
\* invested, current_value and pnl_value over the open positions (stated
\* where every open position carries the three fields), and
\* stats.pnlGlobal = stats.pnlOpen + stats.pnlRealized.
C4_StatsAreSums ==
    pageOp = "merge" =>
        /\ stats.openPositions = Cardinality({k \in 1..Len(positions) :
                                                positions[k].status = "open"})
        /\ stats.pnlGlobal = stats.pnlOpen + stats.pnlRealized
        /\ (\A k \in 1..Len(positions) :
               positions[k].status = "open" =>
                   /\ IsDef(positions[k].invested)
                   /\ IsDef(positions[k].current_value)
                   /\ IsDef(positions[k].pnl_value))
           => /\ stats.invested = SumField(positions, 1, "invested")
              /\ stats.value = SumField(positions, 1, "current_value")
              /\ stats.pnlOpen = SumField(positions, 1, "pnl_value")

\* C10: while the page is attached, every change of the document from hidden
\* to visible issues exactly one _loadData() and opens exactly one new price
\* stream, the only open one; every change from visible to hidden leaves the
\* page without an open price stream.
C10_VisibilityHandling ==
    [][(isConnected /\ hidden # hidden') =>
         IF hidden'
         THEN priceEventSource' = 0 /\ pageSources' = {}
         ELSE /\ nLoads' = nLoads + 1
              /\ inFlight'.positions = inFlight.positions + 1
              /\ inFlight'.stats = inFlight.stats + 1
              /\ nPageSources' = nPageSources + 1
              /\ priceEventSource' = nPageSources'
              /\ pageSources' = {nPageSources'}]_vars

\* C10 witness: the document has just become visible again: the page was
\* hidden without a stream and now holds a stream and has refreshed.
C10_Witness ==
    /\ pageOp = "show"
    /\ isConnected /\ ~hidden
    /\ nLoads >= 2
    /\ priceEventSource # 0
    /\ pageSources = {priceEventSource}

\* C15: when the positions fetch of a refresh fails while the page holds a
\* non-empty position list, the page keeps that list.
C15_FailedRefreshKeepsList ==
    [][(/\ positions # <<>>
        /\ inFlight'.positions = inFlight.positions - 1
        /\ pageOp' = "positionsFailed")
       => positions' = positions]_vars

\* C19: while the document stays hidden and the attached page holds no open
\* price stream, no step opens one: the reconnect timer of an earlier
\* transport error does not reopen the stream before visibility is restored.
C19_NoStreamWhileHidden ==
    [][(hidden /\ hidden' /\ isConnected /\ pageSources = {})
       => (pageSources' = {} /\ nPageSources' = nPageSources)]_vars

\* C24: when a fetch of a refresh completes right after disconnectedCallback
\* has run (so it was in flight at teardown), its completion changes neither
\* the position list nor the aggregate stats.
C24_ResultDiscardedAfterTeardown ==
    [][(/\ pageOp = "unmount"
        /\ ~isConnected
        /\ inFlight' # inFlight)
       => (positions' = positions /\ stats' = stats)]_vars

\* C30: every EventSource the page created, other than the one
\* _priceEventSource references, has been closed: at most one is open.
C30_AtMostOneOpenStream ==
    /\ pageSources \subseteq {priceEventSource}
    /\ Cardinality(pageSources) <= 1

\* C30 witness: the reconnect timer has just replaced the stream by the
\* third EventSource the page created, and only that one is open
C30_Witness ==
    /\ pageOp = "timer"
    /\ nPageSources = 3
    /\ priceEventSource = 3
    /\ pageSources = {3}

\* C20: at every yield point the aggregate stats are the ones
\* _updateStatsFromPositions computes from the position list the page holds:
\* openPositions, invested, value and pnlOpen agree with the list and
\* pnlGlobal = pnlOpen + pnlRealized.
C20_StatsAgreeWithList ==
    /\ stats.openPositions = Len(SelectSeq(positions, IsOpen))
    /\ stats.invested = SumOpen(positions, 1, 1)
    /\ stats.value = SumOpen(positions, 1, 2)
    /\ stats.pnlOpen = SumOpen(positions, 1, 3)
    /\ stats.pnlGlobal = stats.pnlOpen + stats.pnlRealized

----------------------------------------------------------------------------
(* Claims about PositionCard *)

\* the position and tick of the valuation scenario: entry_price 100,
\* quantity 10, buy_commission 5, sell_commission 0, no exit price, and a
\* live tick with price 110 and no server-computed P&L block
IsScenario(p) ==
    /\ p.status = "open"
    /\ p.entry_price = Fix(100) /\ p.quantity = Fix(10)
    /\ p.buy_commission = Fix(5) /\ p.sell_commission = Fix(0)
    /\ p.exit_price = undefined
    /\ p.live_data # undefined
    /\ p.live_data[1].price = Fix(110) /\ p.live_data[1].pnl = undefined

ScenarioFees(ticker) ==
    CASE ticker = "NESN.SW" -> 500
      [] ticker = "AAPL"    -> 565
      [] ticker = "MC.PA"   -> 525
      [] ticker = "VOD.L"   -> 445

C6_ZeroInvestedZeroPercent ==
    (/\ cardView # undefined
     /\ cardPosition.quantity # undefined
     /\ cardPosition.entry_price[1] * cardPosition.quantity[1] = 0
     /\ cardPosition.pnl_value = undefined
     /\ (cardPosition.live_data # undefined => cardPosition.live_data[1].pnl = undefined))
    => cardView[1].pnl.percent = 0

\* the reference of the claim for the alert of position p at price
AlertReference(p, price) ==
    IF p.status # "open" THEN "none"
    ELSE IF Truthy(p.stop_loss) /\ price <= p.stop_loss[1] THEN "sl"
    ELSE IF Truthy(p.take_profit_2) /\ price >= p.take_profit_2[1] THEN "tp2"
    ELSE IF Truthy(p.take_profit_1) /\ price >= p.take_profit_1[1] THEN "tp1"
    ELSE "none"

\* C7 as claimed: alertType equals the reference for every position and
\* every current price.
C7_AlertIsReference ==
    cardView # undefined =>
        cardView[1].alert = AlertReference(cardPosition, cardView[1].pnl.currentPrice)

\* C7 as amended: alertType is none when the status is not open or when the
\* current price is 0 (no price is known), and equals the reference otherwise.
C7_AlertIsReferenceWithPrice ==
    cardView # undefined =>
        cardView[1].alert =
            IF cardView[1].pnl.currentPrice = 0 THEN "none"
            ELSE AlertReference(cardPosition, cardView[1].pnl.currentPrice)

\* C7 witness: stop_loss 90, take_profit_1 110, take_profit_2 120 and a
\* tick at 125 render take-profit 2
C7_Witness ==
    /\ cardView # undefined
    /\ cardPosition.status = "open"
    /\ cardPosition.stop_loss = Fix(90)
    /\ cardPosition.take_profit_1 = Fix(110)
    /\ cardPosition.take_profit_2 = Fix(120)
    /\ cardView[1].pnl.currentPrice = 125 * Scale
    /\ cardView[1].alert = "tp2"

\* C13: markerPosition is in [2, 98] for every position and current price,
\* whichever of stop_loss, take_profit_1 and take_profit_2 are set, and is
\* exactly 50 when the range from stop_loss to take_profit_2 (each as set,
\* or the default standing in for it) has zero or negative width.
C13_MarkerInRange ==
    cardView # undefined =>
        /\ 2 * Scale <= cardView[1].marker
        /\ cardView[1].marker <= 98 * Scale
        /\ (MarkerTp2(cardPosition) <= MarkerSl(cardPosition))
              => cardView[1].marker = 50 * Scale
        /\ (/\ Truthy(cardPosition.stop_loss) /\ Truthy(cardPosition.take_profit_2)
            /\ cardPosition.take_profit_2[1] <= cardPosition.stop_loss[1])
              => cardView[1].marker = 50 * Scale

\* C13 witness: a position whose stop_loss and take_profit_2 are both 120
\* has been rendered with the marker at 50
C13_Witness ==
    /\ cardView # undefined
    /\ cardPosition.stop_loss = Fix(120)
    /\ cardPosition.take_profit_2 = Fix(120)
    /\ cardView[1].pnl.currentPrice = 125 * Scale
    /\ cardView[1].marker = 50 * Scale

\* C16: for the same position and tick, pnlData, alertType and
\* markerPosition are the same under any two display currencies.
C16_DisplayCurrencyIrrelevant ==
    (cardView # undefined /\ cardViewBefore # undefined) =>
        /\ cardView[1].pnl = cardViewBefore[1].view.pnl
        /\ cardView[1].alert = cardViewBefore[1].view.alert
        /\ cardView[1].marker = cardViewBefore[1].view.marker

\* C16 witness: a position with a commission and a tick without P&L block
\* has been rendered under two different display currencies
C16_Witness ==
    /\ cardView # undefined /\ cardViewBefore # undefined
    /\ cardViewBefore[1].currency # cardCurrency
    /\ cardPosition.buy_commission = Fix(5)
    /\ cardPosition.live_data # undefined
    /\ cardPosition.live_data[1].pnl = undefined
    /\ cardView[1].pnl.fees > 0

\* C18: when the position has no live tick or its status is not open, the
\* current price pnlData uses is exit_price when exit_price is set and
\* entry_price otherwise, whatever current_price the position has stored.
C18_FallbackPrice ==
    (/\ cardView # undefined
     /\ (cardPosition.live_data = undefined \/ cardPosition.status # "open"))
    => cardView[1].pnl.currentPrice =
         IF Truthy(cardPosition.exit_price) THEN cardPosition.exit_price[1]
         ELSE cardPosition.entry_price[1]

\* is v a marker position that the clamp to [2, 98] leaves alone?
Unclamped(v) == 2 * Scale <= v /\ v <= 98 * Scale

\* C25: marker, entry line and take-profit-1 line are mapped onto one range:
\* a current price equal to entry_price puts the marker on the entry line
\* and a current price equal to take_profit_1 puts it on the take-profit-1
\* line, whenever that line lies within [2, 98].
C25_MarkerOnReferenceLines ==
    cardView # undefined =>
        /\ (/\ Truthy(cardPosition.entry_price)
            /\ cardView[1].pnl.currentPrice = cardPosition.entry_price[1]
            /\ Unclamped(cardView[1].entryPosition))
           => cardView[1].marker = cardView[1].entryPosition
        /\ (/\ Truthy(cardPosition.take_profit_1)
            /\ cardView[1].pnl.currentPrice = cardPosition.take_profit_1[1]
            /\ Unclamped(cardView[1].tp1Position))
           => cardView[1].marker = cardView[1].tp1Position

\* C26: when no server-computed P&L is on the tick or the position, the
\* breakdown pnlData returns has gross = currentValue - invested.
C26_GrossIsValueMinusInvested ==
    (/\ cardView # undefined
     /\ ~IsDef(cardPosition.pnl_value)
     /\ (IsDef(cardPosition.live_data) => ~IsDef(cardPosition.live_data[1].pnl)))
    => cardView[1].pnl.gross =
         cardView[1].pnl.currentValue - cardView[1].pnl.invested

----------------------------------------------------------------------------
(* Claims about PortfolioChart *)

\* two fill regions share an x interval of positive width
Overlap(r, q) == FracLess(FracMax(r.from, q.from), FracMin(r.to, q.to))

C17_RangeContainsZero ==
    (chartPending = {} /\ chartFills # undefined) =>
        /\ minValue <= 0 /\ 0 <= maxValue
        /\ chartFills[1].scale # undefined =>
              (chartFills[1].scale[1].min <= 0 /\ 0 <= chartFills[1].scale[1].max)

\* sample i is on the outline of one of the regions
OnOutline(regions, i) == \E k \in 1..Len(regions) : i \in regions[k].samples

\* the region among regions that has sample i on its outline ends at x
EndsAt(regions, i, x) ==
    \E k \in 1..Len(regions) :
        /\ i \in regions[k].samples
        /\ regions[k].to[1] * x[2] = x[1] * regions[k].to[2]

\* C27: every sample is on the outline of exactly one fill class, a sample
\* equal to 0 on that of the positive fill; where a sample equal to 0 is
\* followed by a negative sample, or a negative sample by a sample equal to
\* 0, the fill that ends there ends at the x of the sample equal to 0.
C27_ExactAtZeroSamples ==
    (chartFills # undefined /\ Len(chartData) >= 2) =>
        LET pos == chartFills[1].positive
            neg == chartFills[1].negative
        IN /\ \A i \in 1..Len(chartData) :
                /\ OnOutline(pos, i) # OnOutline(neg, i)
                /\ chartData[i] = 0 => OnOutline(pos, i)
           /\ \A i \in 1..(Len(chartData) - 1) :
                /\ (chartData[i] = 0 /\ chartData[i + 1] < 0)
                     => EndsAt(pos, i, PointX(i))
                /\ (chartData[i] < 0 /\ chartData[i + 1] = 0)
                     => EndsAt(neg, i, PointX(i + 1))

\* C27 witness: the series [3, 0, -5, 0] has been drawn: the positive fill
\* ends at the first zero sample, the negative fill at the second
C27_Witness ==
    /\ chartData = <<3, 0, -5, 0>>
    /\ chartFills # undefined
    /\ Len(chartFills[1].positive) = 2
    /\ Len(chartFills[1].negative) = 1

\* C29: once every fetch has completed, the data the chart holds are those
\* of the response to a request issued for the selected timeRangeIndex.
C29_ShowsSelectedRange ==
    (chartPending = {} /\ chartShown # undefined) =>
        /\ chartShown[1] = timeRangeIndex
        /\ chartData = Window(chartSeries, Days(timeRangeIndex))

----------------------------------------------------------------------------
(* Claims about the CRUD submits of app.js *)

\* C14: an accepted submit sends exactly one request; when the API rejects
\* it or the request fails, an error toast is shown, no request is sent
\* again, _loadData() is not called, and isSubmitting is released.
C14_FailureReportedNoRetry ==
    [][/\ (crudOp' = "accepted" /\ request = undefined)
          => (nSent' = nSent + 1 /\ request' # undefined /\ isSubmitting')
       /\ (request # undefined /\ crudOp' \in {"rejected", "failed"})
          => /\ toast' = "error"
             /\ nSent' = nSent
             /\ request' = undefined
             /\ nLoads' = nLoads /\ inFlight' = inFlight
             /\ ~isSubmitting'
       /\ (request # undefined /\ request' # undefined)
          => (nSent' = nSent /\ request' = request)]_vars

\* C14 witness: after a rejected or failed request a later submit has been
\* accepted
C14_Witness ==
    /\ crudOp = "accepted"
    /\ nSent = 2
    /\ toast = "error"
    /\ nLoads = 0

\* C28: when the server answers a close, partial-close, edit or delete
\* request with success, the success toast is shown and _loadData() is
\* called, also when the modal was dismissed while the request was in flight.
C28_SuccessAlwaysReported ==
    [][(/\ request # undefined
        /\ request[1] # "create"
        /\ request' = undefined
        /\ crudOp' \in {"success", "threw"})
       => (toast' = "success" /\ nLoads' = nLoads + 1)]_vars

====
